---- MODULE Spec2Model ----
(***************************************************************************)
(* Routing-table maintenance core of the tox DHT: the per-family liveness  *)
(* tracker (SockAndTime), the dual-stack peer entry (DhtNode), the bounded *)
(* close-node list (Bucket) and the per-friend maintenance cycle           *)
(* (DhtFriend::send_nodes_req_packets).                                    *)
(*                                                                         *)
(* Time is the monotonic clock in whole seconds.  Option<T> is modelled as *)
(* a sequence of length 0 (None) or 1 (Some(x)).                           *)
(***************************************************************************)
EXTENDS Integers, Sequences, FiniteSets, TLC

VARIABLES
    now,            \* the monotonic clock, clock_now() / Instant::now()
    node,           \* one DhtNode (Peer Entry) exercised on its own
    friend,         \* one DhtFriend (Friend Tracker)
    request_queue,  \* Server::request_queue: ping id -> Option<PublicKey>
    ret,            \* what the last operation was called with and what it returned
    codecs,         \* the tcp Codec of each party: its Channel
    buf,            \* the BytesMut the codecs encode into and decode from
    nodes_req_sent  \* per key, when ping_and_get_close_nodes last handed a
                    \* NodesRequest for it to Server::send_nodes_req

vars == <<now, node, friend, request_queue, ret, codecs, buf, nodes_req_sent>>

----------------------------------------------------------------------------
(* Bounds of the model *)

\* public keys are KeyBits-bit numbers (32 bytes in the program)
KeyBits == 3
\* the peers that are learned have the keys 0 .. MaxKey
MaxKey == 3
\* the clock stops at MaxClock seconds
MaxClock == 186
\* capacity of a Bucket (BUCKET_DEFAULT_SIZE when Bucket::new is given None)
BucketSize == 2
\* the clock of the friend specification stops at MaxFriendClock seconds
MaxFriendClock == 120
\* the peers a friend learns of have the keys 0 .. MaxFriendKey
MaxFriendKey == 1
\* random_usize() draws a number in 0 .. MaxRand
MaxRand == 1
\* the maintenance cycle is not run again once bootstrap_times has reached
\* MaxBootstrapTimes
MaxBootstrapTimes == 4
\* the selection of send_nodes_req_random is tried on pools of 1 .. MaxPool
\* nodes
MaxPool == 4
\* with random_usize() drawing a number in 0 .. MaxDraw
MaxDraw == 5
\* the largest serialized tcp Packet has MaxTcpPacketSize bytes (2032 in
\* the program)
MaxTcpPacketSize == 3
\* a Channel may encrypt or decrypt while its nonce is less than MaxNonce
\* steps from where it began
MaxNonce == 3
\* the buffer holds at most MaxFrames frames or raw slices
MaxFrames == 2

----------------------------------------------------------------------------
(* Program constants *)

PING_INTERVAL == 60
BAD_NODE_TIMEOUT == PING_INTERVAL * 2 + 2
KILL_NODE_TIMEOUT_short == BAD_NODE_TIMEOUT - PING_INTERVAL
KILL_NODE_TIMEOUT == BAD_NODE_TIMEOUT + PING_INTERVAL
NODES_REQ_INTERVAL == 60
MAX_BOOTSTRAP_TIMES == 3

----------------------------------------------------------------------------
(* Option<T> *)

None == <<>>
Some(x) == <<x>>
IsSome(o) == o # <<>>
IsNone(o) == o = <<>>
Unwrap(o) == o[1]

\* Option<Instant> ordering of Rust: None < Some(_), Some(a) <= Some(b) iff a <= b
OptGe(a, b) ==
    IF IsNone(b) THEN TRUE
    ELSE IF IsNone(a) THEN FALSE
    ELSE Unwrap(a) >= Unwrap(b)

----------------------------------------------------------------------------
(* Keys and addresses *)

RECURSIVE Pow2(_)
Pow2(n) == IF n = 0 THEN 1 ELSE 2 * Pow2(n - 1)

Keys == 0 .. MaxKey

\* the reference keys distances are taken to: XOR with the first reverses the
\* order of the keys, XOR with the second swaps neighbours
BaseKeys == {Pow2(KeyBits) - 1, 1}

\* std::net::SocketAddrV4 / SocketAddrV6.  An IPv6 address is its leading
\* 96 bits ("mapped" for ::ffff:a.b.c.d, "compatible" for ::a.b.c.d, which
\* with low bits 1 is the loopback address ::1, "global" for anything else)
\* and its low 32 bits.
AddrV4(ip, port) == [ip |-> ip, port |-> port]
AddrV6(seg, low, port) == [seg |-> seg, low |-> low, port |-> port]
SockV4(a) == [fam |-> "V4", v4 |-> a]
SockV6(a) == [fam |-> "V6", v6 |-> a]

\* Ipv6Addr::to_ipv4: ::ffff:a.b.c.d and ::a.b.c.d both become a.b.c.d
ToIpv4(a6) == IF a6.seg \in {"mapped", "compatible"} THEN Some(a6.low) ELSE None

\* the socket addresses peers are learned with in the list specifications
ListAddrs ==
    { SockV4(AddrV4(1, 33445)),
      SockV6(AddrV6("global", 1, 33445)) }

\* the socket addresses packets arrive from
Addrs ==
    { SockV4(AddrV4(1, 33445)),
      SockV6(AddrV6("mapped", 1, 33446)),
      SockV6(AddrV6("compatible", 1, 33447)),
      SockV6(AddrV6("global", 1, 33445)) }

PackedNode(saddr, pk) == [pk |-> pk, saddr |-> saddr]

----------------------------------------------------------------------------
(* SockAndTime *)

clock_elapsed(time, t) == t - time

\* new that records no response time
SockAndTimeNew_noresp(saddr, t) ==
    [ saddr              |-> saddr,
      last_resp_time     |-> None,
      last_ping_req_time |-> None,
      ret_saddr          |-> None,
      ret_last_resp_time |-> None ]

SockAndTimeNew(saddr, t) ==
    [ saddr              |-> saddr,
      last_resp_time     |-> IF IsSome(saddr) THEN Some(t) ELSE None,
      last_ping_req_time |-> None,
      ret_saddr          |-> None,
      ret_last_resp_time |-> None ]

\* is_bad with >= in place of >
SockIsBad_ge(s, t) ==
    IF IsNone(s.last_resp_time) THEN TRUE
    ELSE clock_elapsed(Unwrap(s.last_resp_time), t) >= BAD_NODE_TIMEOUT

SockIsBad(s, t) ==
    IF IsNone(s.last_resp_time) THEN TRUE
    ELSE clock_elapsed(Unwrap(s.last_resp_time), t) > BAD_NODE_TIMEOUT

SockIsDiscarded(s, t) ==
    IF IsNone(s.last_resp_time) THEN TRUE
    ELSE clock_elapsed(Unwrap(s.last_resp_time), t) > KILL_NODE_TIMEOUT

SockIsPingIntervalPassed_gt(s, t) ==
    IF IsNone(s.last_ping_req_time) THEN TRUE
    ELSE clock_elapsed(Unwrap(s.last_ping_req_time), t) > PING_INTERVAL

SockIsPingIntervalPassed(s, t) ==
    IF IsNone(s.last_ping_req_time) THEN TRUE
    ELSE clock_elapsed(Unwrap(s.last_ping_req_time), t) >= PING_INTERVAL

\* ping_addr ignoring the discard gate
SockPingAddr_nogate(s, t) ==
    IF IsSome(s.saddr) /\ SockIsPingIntervalPassed(s, t)
    THEN [sock |-> [s EXCEPT !.last_ping_req_time = Some(t)], out |-> s.saddr]
    ELSE [sock |-> s, out |-> None]

\* ping_addr: the tracker after the call and the address returned
SockPingAddr(s, t) ==
    IF IsSome(s.saddr)
    THEN IF ~SockIsDiscarded(s, t) /\ SockIsPingIntervalPassed(s, t)
         THEN [sock |-> [s EXCEPT !.last_ping_req_time = Some(t)], out |-> s.saddr]
         ELSE [sock |-> s, out |-> None]
    ELSE [sock |-> s, out |-> None]

----------------------------------------------------------------------------
(* DhtNode *)

DhtNodeNew(pn, t) ==
    LET split ==
          IF pn.saddr.fam = "V4"
          THEN <<Some(pn.saddr.v4), None>>
          ELSE LET v6 == pn.saddr.v6
                   converted_ip4 == ToIpv4(v6)
               IN  IF IsSome(converted_ip4)
                   THEN <<Some(AddrV4(Unwrap(converted_ip4), v6.port)), None>>
                   ELSE <<None, Some(v6)>>
    IN  [ pk     |-> pn.pk,
          assoc4 |-> SockAndTimeNew(split[1], t),
          assoc6 |-> SockAndTimeNew(split[2], t),
          last_ping_req_time |-> None ]

\* is_bad when either family is bad
DhtNodeIsBad_either(n, t) == SockIsBad(n.assoc4, t) \/ SockIsBad(n.assoc6, t)

DhtNodeIsBad(n, t) == SockIsBad(n.assoc4, t) /\ SockIsBad(n.assoc6, t)

\* is_discarded when either family is discarded
DhtNodeIsDiscarded_either(n, t) == SockIsDiscarded(n.assoc4, t) \/ SockIsDiscarded(n.assoc6, t)

DhtNodeIsDiscarded(n, t) == SockIsDiscarded(n.assoc4, t) /\ SockIsDiscarded(n.assoc6, t)

\* a response from pn.saddr recorded on the tracker of its family
DhtNodeUpdate(n, pn, t) ==
    LET fresh == DhtNodeNew(pn, t)
    IN  IF IsSome(fresh.assoc4.saddr)
        THEN [n EXCEPT !.assoc4.saddr = fresh.assoc4.saddr,
                       !.assoc4.last_resp_time = Some(t)]
        ELSE [n EXCEPT !.assoc6.saddr = fresh.assoc6.saddr,
                       !.assoc6.last_resp_time = Some(t)]

\* get_socket_addr that takes IPv4 only when its response is strictly newer
DhtNodeGetSocketAddr_gt(n, is_ipv6_enabled) ==
    IF is_ipv6_enabled
    THEN IF IsSome(n.assoc6.saddr)
         THEN IF IsSome(n.assoc4.saddr)
              THEN IF ~OptGe(n.assoc6.last_resp_time, n.assoc4.last_resp_time)
                   THEN Some(SockV4(Unwrap(n.assoc4.saddr)))
                   ELSE Some(SockV6(Unwrap(n.assoc6.saddr)))
              ELSE Some(SockV6(Unwrap(n.assoc6.saddr)))
         ELSE IF IsSome(n.assoc4.saddr) THEN Some(SockV4(Unwrap(n.assoc4.saddr))) ELSE None
    ELSE IF IsSome(n.assoc4.saddr) THEN Some(SockV4(Unwrap(n.assoc4.saddr))) ELSE None

\* get_socket_addr
DhtNodeGetSocketAddr(n, is_ipv6_enabled) ==
    IF is_ipv6_enabled
    THEN IF IsSome(n.assoc6.saddr)
         THEN IF IsSome(n.assoc4.saddr)
              THEN IF OptGe(n.assoc4.last_resp_time, n.assoc6.last_resp_time)
                   THEN Some(SockV4(Unwrap(n.assoc4.saddr)))
                   ELSE Some(SockV6(Unwrap(n.assoc6.saddr)))
              ELSE Some(SockV6(Unwrap(n.assoc6.saddr)))
         ELSE IF IsSome(n.assoc4.saddr) THEN Some(SockV4(Unwrap(n.assoc4.saddr))) ELSE None
    ELSE IF IsSome(n.assoc4.saddr) THEN Some(SockV4(Unwrap(n.assoc4.saddr))) ELSE None

\* saddr.into_iter().map(SocketAddr::V4) and .map(SocketAddr::V6): the
\* sequence of no or one socket address
IterV4(o) == IF IsSome(o) THEN <<SockV4(Unwrap(o))>> ELSE <<>>
IterV6(o) == IF IsSome(o) THEN <<SockV6(Unwrap(o))>> ELSE <<>>

\* get_all_addrs that ignores the flag
DhtNodeGetAllAddrs_noflag(n, is_ipv6_enabled) ==
    IterV4(n.assoc4.saddr) \o IterV6(n.assoc6.saddr)

\* get_all_addrs
DhtNodeGetAllAddrs(n, is_ipv6_enabled) ==
    IF is_ipv6_enabled
    THEN IterV4(n.assoc4.saddr) \o IterV6(n.assoc6.saddr)
    ELSE IterV4(n.assoc4.saddr)

\* node.clone().into(): the PackedNode of an entry, with its preferred address
\* update_returned_addr that counts the packet as a response of the node
DhtNodeUpdateReturnedAddr_resp(n, addr, t) ==
    IF addr.fam = "V4"
    THEN [n EXCEPT !.assoc4.ret_saddr = Some(addr.v4),
                   !.assoc4.ret_last_resp_time = Some(t),
                   !.assoc4.last_resp_time = Some(t)]
    ELSE [n EXCEPT !.assoc6.ret_saddr = Some(addr.v6),
                   !.assoc6.ret_last_resp_time = Some(t),
                   !.assoc6.last_resp_time = Some(t)]

DhtNodeUpdateReturnedAddr(n, addr, t) ==
    IF addr.fam = "V4"
    THEN [n EXCEPT !.assoc4.ret_saddr = Some(addr.v4),
                   !.assoc4.ret_last_resp_time = Some(t)]
    ELSE [n EXCEPT !.assoc6.ret_saddr = Some(addr.v6),
                   !.assoc6.ret_last_resp_time = Some(t)]

DhtNodeIntoPacked(n) == PackedNode(Unwrap(DhtNodeGetSocketAddr(n, TRUE)), n.pk)

----------------------------------------------------------------------------
(* Server::request_queue: the ping ids in flight *)

\* The queue is kept as the ids minted since the latest maintenance cycle
\* began, each with the key it was minted for; the ids of earlier cycles have
\* been answered or have timed out.
PingIds == 1 .. (2 * BucketSize + 1)

RequestQueueNew == [id \in PingIds |-> None]

FreeIds(rq) == {id \in PingIds : IsNone(rq[id])}

\* new_ping_id(pk): the id minted and the queue holding it
NewPingId(rq, pk) ==
    LET id == CHOOSE i \in FreeIds(rq) : \A j \in FreeIds(rq) : i <= j
    IN  [id |-> id, rq |-> [rq EXCEPT ![id] = Some(pk)]]

\* check_ping_id(pk, id)
CheckPingId(rq, pk, id) == id \in PingIds /\ rq[id] = Some(pk)

----------------------------------------------------------------------------
(* The peer entry on its own *)

Trackers(n) == {n.assoc4, n.assoc6}

NodeInit ==
    /\ now = 0
    /\ \E a \in Addrs :
        /\ node = DhtNodeNew(PackedNode(a, 0), 0)
        /\ ret = [op |-> "new", pn |-> PackedNode(a, 0), at |-> 0]
    /\ friend = None
    /\ request_queue = RequestQueueNew
    /\ codecs = None
    /\ buf = None
    /\ nodes_req_sent = None

Tick(d) ==
    /\ now + d <= MaxClock
    /\ now' = now + d
    /\ ret' = [op |-> "tick"]
    /\ UNCHANGED <<node, friend, request_queue, codecs, buf, nodes_req_sent>>

NodeNew(a) ==
    /\ node' = DhtNodeNew(PackedNode(a, node.pk), now)
    /\ ret' = [op |-> "new", pn |-> PackedNode(a, node.pk), at |-> now]
    /\ UNCHANGED <<now, friend, request_queue, codecs, buf, nodes_req_sent>>

NodeResponse(a) ==
    /\ node' = DhtNodeUpdate(node, PackedNode(a, node.pk), now)
    /\ ret' = [op |-> "update"]
    /\ UNCHANGED <<now, friend, request_queue, codecs, buf, nodes_req_sent>>

NodePingAddr4 ==
    LET r == SockPingAddr(node.assoc4, now)
    IN  /\ node' = [node EXCEPT !.assoc4 = r.sock]
        /\ ret' = [op |-> "ping_addr", pre |-> node.assoc4, post |-> r.sock,
                   out |-> r.out, at |-> now]
        /\ UNCHANGED <<now, friend, request_queue, codecs, buf, nodes_req_sent>>

NodePingAddr6 ==
    LET r == SockPingAddr(node.assoc6, now)
    IN  /\ node' = [node EXCEPT !.assoc6 = r.sock]
        /\ ret' = [op |-> "ping_addr", pre |-> node.assoc6, post |-> r.sock,
                   out |-> r.out, at |-> now]
        /\ UNCHANGED <<now, friend, request_queue, codecs, buf, nodes_req_sent>>

NodeGetSocketAddr(is_ipv6_enabled) ==
    /\ ret' = [op |-> "get_socket_addr", pre |-> node,
               is_ipv6_enabled |-> is_ipv6_enabled,
               out |-> DhtNodeGetSocketAddr(node, is_ipv6_enabled)]
    /\ UNCHANGED <<now, node, friend, request_queue, codecs, buf, nodes_req_sent>>

NodeGetAllAddrs(is_ipv6_enabled) ==
    /\ ret' = [op |-> "get_all_addrs", pre |-> node,
               is_ipv6_enabled |-> is_ipv6_enabled,
               out |-> DhtNodeGetAllAddrs(node, is_ipv6_enabled)]
    /\ UNCHANGED <<now, node, friend, request_queue, codecs, buf, nodes_req_sent>>

\* the clock advances by these amounts: their sums reach every threshold
\* exactly (59, 60; 122 = 59 + 63, 123 = 60 + 63; 182 = 59 + 60 + 63, 183)
NodeSteps == {PING_INTERVAL - 1, PING_INTERVAL, PING_INTERVAL + 3}

NodeNext ==
    \/ \E d \in NodeSteps : Tick(d)
    \/ \E a \in Addrs : NodeNew(a)
    \/ \E a \in Addrs : NodeResponse(a)
    \/ NodePingAddr4
    \/ NodePingAddr6
    \/ \E e \in BOOLEAN : NodeGetSocketAddr(e)
    \/ \E e \in BOOLEAN : NodeGetAllAddrs(e)

SpecNode == NodeInit /\ [][NodeNext]_vars

\* the addresses a node reports back: ours as it sees it
ReturnedAddrs ==
    { SockV4(AddrV4(2, 33445)),
      SockV6(AddrV6("mapped", 2, 33445)),
      SockV6(AddrV6("global", 2, 33445)) }

NodeUpdateReturnedAddr(addr) ==
    /\ node' = DhtNodeUpdateReturnedAddr(node, addr, now)
    /\ ret' = [op |-> "update_returned_addr", pre |-> node, addr |-> addr, at |-> now]
    /\ UNCHANGED <<now, friend, request_queue, codecs, buf, nodes_req_sent>>

\* One node that ages, answers, is pinged and reports addresses back; with
\* these clock steps it is good at 61 and 122 s, bad and discarded at 183 s.
ReturnedSteps == {PING_INTERVAL + 1}

ReturnedNext ==
    \/ \E d \in ReturnedSteps : Tick(d)
    \/ \E a \in Addrs : NodeResponse(a)
    \/ NodePingAddr4
    \/ NodePingAddr6
    \/ \E addr \in ReturnedAddrs : NodeUpdateReturnedAddr(addr)

SpecReturned == NodeInit /\ [][ReturnedNext]_vars

----------------------------------------------------------------------------
(* Bucket: the close-node list *)

\* PublicKey::distance: the XOR of two keys read as a big-endian number
RECURSIVE XorBits(_, _, _)
XorBits(a, b, n) ==
    IF n = 0 THEN 0
    ELSE (((a % 2) + (b % 2)) % 2) + 2 * XorBits(a \div 2, b \div 2, n - 1)

Distance(base_pk, pk) == XorBits(base_pk, pk, KeyBits)

BucketNew(capacity) == [capacity |-> capacity, nodes |-> <<>>]

\* the ranking key: health tier first, XOR distance to base_pk second
Outranks(a, b, base_pk, t) ==
    LET bad_a == DhtNodeIsBad(a, t)
        bad_b == DhtNodeIsBad(b, t)
    IN  \/ ~bad_a /\ bad_b
        \/ bad_a = bad_b /\ Distance(base_pk, a.pk) < Distance(base_pk, b.pk)

\* n put before the first entry it outranks
RECURSIVE InsertSorted(_, _, _, _)
InsertSorted(nodes, n, base_pk, t) ==
    IF nodes = <<>> THEN <<n>>
    ELSE IF Outranks(n, Head(nodes), base_pk, t) THEN <<n>> \o nodes
    ELSE <<Head(nodes)>> \o InsertSorted(Tail(nodes), n, base_pk, t)

RECURSIVE SortNodes(_, _, _)
SortNodes(nodes, base_pk, t) ==
    IF nodes = <<>> THEN <<>>
    ELSE InsertSorted(SortNodes(Tail(nodes), base_pk, t), Head(nodes), base_pk, t)

\* index of the entry with this key, 0 when there is none
BucketFind(nodes, pk) ==
    IF \E i \in 1 .. Len(nodes) : nodes[i].pk = pk
    THEN CHOOSE i \in 1 .. Len(nodes) : nodes[i].pk = pk
    ELSE 0

\* index of the worst-ranked entry of a non-empty list
WorstIndex(nodes, base_pk, t) ==
    CHOOSE w \in 1 .. Len(nodes) :
        \A i \in 1 .. Len(nodes) : i # w => Outranks(nodes[i], nodes[w], base_pk, t)

RemoveAt(nodes, i) ==
    [k \in 1 .. (Len(nodes) - 1) |-> IF k < i THEN nodes[k] ELSE nodes[k + 1]]

\* try_add without the capacity check
BucketTryAdd_nocap(b, base_pk, pn, t) ==
    LET i == BucketFind(b.nodes, pn.pk)
    IN  IF i # 0
        THEN [bucket |-> [b EXCEPT !.nodes = SortNodes(
                              [b.nodes EXCEPT ![i] = DhtNodeUpdate(b.nodes[i], pn, t)],
                              base_pk, t)],
              ok |-> TRUE]
        ELSE [bucket |-> [b EXCEPT !.nodes =
                              SortNodes(Append(b.nodes, DhtNodeNew(pn, t)), base_pk, t)],
              ok |-> TRUE]

\* try_add appending without sorting
BucketTryAdd_nosort(b, base_pk, pn, t) ==
    LET i == BucketFind(b.nodes, pn.pk)
        new_node == DhtNodeNew(pn, t)
    IN  IF i # 0
        THEN [bucket |-> [b EXCEPT !.nodes[i] = DhtNodeUpdate(b.nodes[i], pn, t)],
              ok |-> TRUE]
        ELSE IF Len(b.nodes) < b.capacity
        THEN [bucket |-> [b EXCEPT !.nodes = Append(b.nodes, new_node)], ok |-> TRUE]
        ELSE LET w == WorstIndex(b.nodes, base_pk, t)
             IN  IF Outranks(new_node, b.nodes[w], base_pk, t)
                 THEN [bucket |-> [b EXCEPT !.nodes = Append(RemoveAt(b.nodes, w), new_node)],
                       ok |-> TRUE]
                 ELSE [bucket |-> b, ok |-> FALSE]

\* try_add evicting the closest entry instead of the worst-ranked one
BucketTryAdd_evictfirst(b, base_pk, pn, t) ==
    LET i == BucketFind(b.nodes, pn.pk)
        new_node == DhtNodeNew(pn, t)
    IN  IF i # 0
        THEN [bucket |-> [b EXCEPT !.nodes = SortNodes(
                              [b.nodes EXCEPT ![i] = DhtNodeUpdate(b.nodes[i], pn, t)],
                              base_pk, t)],
              ok |-> TRUE]
        ELSE IF Len(b.nodes) < b.capacity
        THEN [bucket |-> [b EXCEPT !.nodes = SortNodes(Append(b.nodes, new_node), base_pk, t)],
              ok |-> TRUE]
        ELSE LET w == WorstIndex(b.nodes, base_pk, t)
             IN  IF Outranks(new_node, b.nodes[w], base_pk, t)
                 THEN [bucket |-> [b EXCEPT !.nodes =
                                       SortNodes(Append(Tail(b.nodes), new_node), base_pk, t)],
                       ok |-> TRUE]
                 ELSE [bucket |-> b, ok |-> FALSE]

\* try_add that always evicts the worst entry of a full list
BucketTryAdd_alwaysevict(b, base_pk, pn, t) ==
    LET i == BucketFind(b.nodes, pn.pk)
        new_node == DhtNodeNew(pn, t)
    IN  IF i # 0
        THEN [bucket |-> [b EXCEPT !.nodes = SortNodes(
                              [b.nodes EXCEPT ![i] = DhtNodeUpdate(b.nodes[i], pn, t)],
                              base_pk, t)],
              ok |-> TRUE]
        ELSE IF Len(b.nodes) < b.capacity
        THEN [bucket |-> [b EXCEPT !.nodes = SortNodes(Append(b.nodes, new_node), base_pk, t)],
              ok |-> TRUE]
        ELSE LET w == WorstIndex(b.nodes, base_pk, t)
             IN  [bucket |-> [b EXCEPT !.nodes =
                                  SortNodes(Append(RemoveAt(b.nodes, w), new_node), base_pk, t)],
                  ok |-> TRUE]

\* try_add that treats a present key as a new candidate
BucketTryAdd_noupdate(b, base_pk, pn, t) ==
    LET new_node == DhtNodeNew(pn, t)
    IN  IF Len(b.nodes) < b.capacity
        THEN [bucket |-> [b EXCEPT !.nodes = SortNodes(Append(b.nodes, new_node), base_pk, t)],
              ok |-> TRUE]
        ELSE LET w == WorstIndex(b.nodes, base_pk, t)
             IN  IF Outranks(new_node, b.nodes[w], base_pk, t)
                 THEN [bucket |-> [b EXCEPT !.nodes =
                                       SortNodes(Append(RemoveAt(b.nodes, w), new_node), base_pk, t)],
                       ok |-> TRUE]
                 ELSE [bucket |-> b, ok |-> FALSE]

\* Bucket::try_add(base_pk, pn) at time t: the bucket after the call and the
\* value returned
BucketTryAdd(b, base_pk, pn, t) ==
    LET i == BucketFind(b.nodes, pn.pk)
        new_node == DhtNodeNew(pn, t)
    IN  IF i # 0
        THEN \* the key is present: update the entry and re-sort
             [bucket |-> [b EXCEPT !.nodes = SortNodes(
                              [b.nodes EXCEPT ![i] = DhtNodeUpdate(b.nodes[i], pn, t)],
                              base_pk, t)],
              ok |-> TRUE]
        ELSE IF Len(b.nodes) < b.capacity
        THEN [bucket |-> [b EXCEPT !.nodes = SortNodes(Append(b.nodes, new_node), base_pk, t)],
              ok |-> TRUE]
        ELSE LET w == WorstIndex(b.nodes, base_pk, t)
             IN  IF Outranks(new_node, b.nodes[w], base_pk, t)
                 THEN [bucket |-> [b EXCEPT !.nodes =
                                       SortNodes(Append(RemoveAt(b.nodes, w), new_node), base_pk, t)],
                       ok |-> TRUE]
                 ELSE [bucket |-> b, ok |-> FALSE]

----------------------------------------------------------------------------
(* DhtFriend *)

DhtFriendNew(pk) ==
    [ pk                  |-> pk,
      close_nodes         |-> BucketNew(BucketSize),
      last_nodes_req_time |-> None,
      bootstrap_times     |-> 0,
      bootstrap_nodes     |-> BucketNew(BucketSize) ]

PackedNodes == {PackedNode(a, pk) : a \in ListAddrs, pk \in Keys}

\* no NodesRequest of ping_and_get_close_nodes has been sent yet
NoNodesReqSent == [pk \in Keys \cup (0 .. MaxFriendKey) |-> None]

\* friend.close_nodes.try_add(&friend.pk, &pn)
CloseNodesTryAdd(pn) ==
    /\ \E r \in {BucketTryAdd(friend.close_nodes, friend.pk, pn, now)} :
        /\ friend' = [friend EXCEPT !.close_nodes = r.bucket]
        /\ ret' = [op |-> "try_add", list |-> "close_nodes", pn |-> pn,
                   pre |-> friend.close_nodes, ok |-> r.ok, at |-> now]
    /\ UNCHANGED <<now, node, request_queue, codecs, buf, nodes_req_sent>>

BucketInit ==
    /\ now = 0
    /\ node = None
    /\ \E pk \in BaseKeys : friend = DhtFriendNew(pk)
    /\ request_queue = RequestQueueNew
    /\ codecs = None
    /\ buf = None
    /\ nodes_req_sent = NoNodesReqSent
    /\ ret = [op |-> "new"]

\* clock step of the close-node list specification: after 2 steps (122 s) an
\* entry is not yet bad, after 3 (183 s) it is
BucketSteps == {PING_INTERVAL + 1}

BucketNext ==
    \/ \E d \in BucketSteps : Tick(d)
    \/ \E pn \in PackedNodes : CloseNodesTryAdd(pn)

SpecBucket == BucketInit /\ [][BucketNext]_vars


----------------------------------------------------------------------------
(* DhtFriend::send_nodes_req_packets: the maintenance cycle *)

\* Bucket::to_packed
BucketToPacked(b) == [i \in 1 .. Len(b.nodes) |-> DhtNodeIntoPacked(b.nodes[i])]

\* the call server.send_nodes_req(target, pk, id) made by sub-task task
Query(task, target, pk, id) == [task |-> task, target |-> target, pk |-> pk, id |-> id]

\* one send_nodes_req per bootstrap node, each with a ping id minted for its key
RECURSIVE BootstrapQueries(_, _, _)
BootstrapQueries(bootstrap_nodes, pk, rq) ==
    IF bootstrap_nodes = <<>> THEN [rq |-> rq, queries |-> <<>>]
    ELSE LET n == Head(bootstrap_nodes)
             m == NewPingId(rq, n.pk)
             rest == BootstrapQueries(Tail(bootstrap_nodes), pk, m.rq)
         IN  [rq |-> rest.rq,
              queries |-> <<Query("bootstrap", n, pk, m.id)>> \o rest.queries]

\* ping_bootstrap_nodes that leaves the bootstrap list in place
PingBootstrapNodes_noswap(f, rq) ==
    LET r == BootstrapQueries(BucketToPacked(f.bootstrap_nodes), f.pk, rq)
    IN  [friend |-> f, rq |-> r.rq, queries |-> r.queries]

PingBootstrapNodes(f, rq) ==
    LET bootstrap_nodes == BucketToPacked(f.bootstrap_nodes)
        r == BootstrapQueries(bootstrap_nodes, f.pk, rq)
    IN  [friend |-> [f EXCEPT !.bootstrap_nodes = BucketNew(BucketSize)],
         rq |-> r.rq,
         queries |-> r.queries]

\* the closure of ping_and_get_close_nodes over the close nodes, in order
RECURSIVE CloseQueries(_, _, _, _)
CloseQueries(nodes, pk, rq, t) ==
    IF nodes = <<>> THEN [nodes |-> <<>>, rq |-> rq, queries |-> <<>>]
    ELSE LET n == Head(nodes)
             due == \/ IsNone(n.last_ping_req_time)
                    \/ clock_elapsed(Unwrap(n.last_ping_req_time), t) >= PING_INTERVAL
             pinged == [n EXCEPT !.last_ping_req_time = Some(t)]
             m == NewPingId(rq, n.pk)
             rest == CloseQueries(Tail(nodes), pk, IF due THEN m.rq ELSE rq, t)
         IN  IF due
             THEN [nodes |-> <<pinged>> \o rest.nodes,
                   rq |-> rest.rq,
                   queries |-> <<Query("close", DhtNodeIntoPacked(pinged), pk, m.id)>>
                                   \o rest.queries]
             ELSE [nodes |-> <<n>> \o rest.nodes, rq |-> rest.rq, queries |-> rest.queries]

\* ping_and_get_close_nodes that sends without recording the time
PingAndGetCloseNodes_nostamp(f, rq, t) ==
    LET r == CloseQueries(f.close_nodes.nodes, f.pk, rq, t)
    IN  [friend |-> f, rq |-> r.rq, queries |-> r.queries]

PingAndGetCloseNodes(f, rq, t) ==
    LET r == CloseQueries(f.close_nodes.nodes, f.pk, rq, t)
    IN  [friend |-> [f EXCEPT !.close_nodes.nodes = r.nodes],
         rq |-> r.rq,
         queries |-> r.queries]

\* the index drawn without the second draw
RandomNode_uniform(num_nodes, r1, r2) == r1 % num_nodes

\* the index send_nodes_req_random picks among num_nodes good nodes; r1 and
\* r2 are the two values random_usize() returns
RandomNode(num_nodes, r1, r2) ==
    LET first == r1 % num_nodes
    IN  IF first # 0 THEN first - (r2 % (first + 1)) ELSE first

\* send_nodes_req_random that draws from the whole list, bad entries too
SendNodesReqRandom_allnodes(f, rq, t, r1, r2) ==
    IF /\ IsSome(f.last_nodes_req_time)
       /\ clock_elapsed(Unwrap(f.last_nodes_req_time), t) < NODES_REQ_INTERVAL
       /\ f.bootstrap_times >= MAX_BOOTSTRAP_TIMES
    THEN [friend |-> f, rq |-> rq, queries |-> <<>>]
    ELSE LET good == f.close_nodes.nodes
             good_nodes == [i \in 1 .. Len(good) |-> DhtNodeIntoPacked(good[i])]
         IN  IF good_nodes # <<>>
             THEN LET num_nodes == Len(good_nodes)
                      random_node == RandomNode(num_nodes, r1, r2)
                      target == good_nodes[random_node + 1]
                      m == NewPingId(rq, target.pk)
                  IN  [friend |-> [f EXCEPT !.bootstrap_times = @ + 1,
                                            !.last_nodes_req_time = Some(t)],
                       rq |-> m.rq,
                       queries |-> <<Query("random", target, f.pk, m.id)>>]
             ELSE [friend |-> f, rq |-> rq, queries |-> <<>>]

\* send_nodes_req_random that returns early when either condition holds
SendNodesReqRandom_or(f, rq, t, r1, r2) ==
    IF \/ /\ IsSome(f.last_nodes_req_time)
          /\ clock_elapsed(Unwrap(f.last_nodes_req_time), t) < NODES_REQ_INTERVAL
       \/ f.bootstrap_times >= MAX_BOOTSTRAP_TIMES
    THEN [friend |-> f, rq |-> rq, queries |-> <<>>]
    ELSE LET good == SelectSeq(f.close_nodes.nodes, LAMBDA n : ~DhtNodeIsBad(n, t))
             good_nodes == [i \in 1 .. Len(good) |-> DhtNodeIntoPacked(good[i])]
         IN  IF good_nodes # <<>>
             THEN LET num_nodes == Len(good_nodes)
                      random_node == RandomNode(num_nodes, r1, r2)
                      target == good_nodes[random_node + 1]
                      m == NewPingId(rq, target.pk)
                  IN  [friend |-> [f EXCEPT !.bootstrap_times = @ + 1,
                                            !.last_nodes_req_time = Some(t)],
                       rq |-> m.rq,
                       queries |-> <<Query("random", target, f.pk, m.id)>>]
             ELSE [friend |-> f, rq |-> rq, queries |-> <<>>]

\* r1 and r2 are the two values random_usize() returns
SendNodesReqRandom(f, rq, t, r1, r2) ==
    IF /\ IsSome(f.last_nodes_req_time)
       /\ clock_elapsed(Unwrap(f.last_nodes_req_time), t) < NODES_REQ_INTERVAL
       /\ f.bootstrap_times >= MAX_BOOTSTRAP_TIMES
    THEN [friend |-> f, rq |-> rq, queries |-> <<>>]
    ELSE LET good == SelectSeq(f.close_nodes.nodes, LAMBDA n : ~DhtNodeIsBad(n, t))
             good_nodes == [i \in 1 .. Len(good) |-> DhtNodeIntoPacked(good[i])]
         IN  IF good_nodes # <<>>
             THEN LET num_nodes == Len(good_nodes)
                      random_node == RandomNode(num_nodes, r1, r2)
                      target == good_nodes[random_node + 1]
                      m == NewPingId(rq, target.pk)
                  IN  [friend |-> [f EXCEPT !.bootstrap_times = @ + 1,
                                            !.last_nodes_req_time = Some(t)],
                       rq |-> m.rq,
                       queries |-> <<Query("random", target, f.pk, m.id)>>]
             ELSE [friend |-> f, rq |-> rq, queries |-> <<>>]

RandomUsize == 0 .. MaxRand

\* what send_nodes_req_packets does to the friend and the request queue, and
\* the queries it makes, in the order the three sub-tasks are built
Cycle(f, rq, t, r1, r2) ==
    LET a == PingBootstrapNodes(f, rq)
        b == PingAndGetCloseNodes(a.friend, a.rq, t)
        c == SendNodesReqRandom(b.friend, b.rq, t, r1, r2)
    IN  [friend |-> c.friend, rq |-> c.rq, queries |-> a.queries \o b.queries \o c.queries]

\* send_nodes_req_packets(server).wait(); the send numbered failed (0 for
\* none) fails
SendNodesReqPackets(r1, r2) ==
    /\ friend.bootstrap_times < MaxBootstrapTimes
    /\ \E r \in {Cycle(friend, RequestQueueNew, now, r1, r2)} :
       \E failed \in 0 .. Len(r.queries) :
        /\ friend' = r.friend
        /\ request_queue' = r.rq
        /\ ret' = [op |-> "send_nodes_req_packets",
                   pre |-> friend,
                   sent |-> [i \in 1 .. Len(r.queries) |->
                                 [query |-> r.queries[i], delivered |-> i # failed]],
                   \* only the error of the random sub-task reaches join3
                   is_ok |-> ~(failed # 0 /\ r.queries[failed].task = "random"),
                   again |-> ret.op = "send_nodes_req_packets",
                   \* the time of the cycle this one follows directly
                   pre_at |-> IF ret.op = "send_nodes_req_packets"
                              THEN Some(ret.at) ELSE None,
                   pre_sent |-> nodes_req_sent,
                   at |-> now]
        /\ nodes_req_sent' =
               [pk \in DOMAIN nodes_req_sent |->
                   IF \E i \in 1 .. Len(r.queries) :
                          r.queries[i].task = "close" /\ r.queries[i].target.pk = pk
                   THEN Some(now)
                   ELSE nodes_req_sent[pk]]
    /\ UNCHANGED <<now, node, codecs, buf>>

\* friend.bootstrap_nodes.try_add(&friend.pk, &pn)
BootstrapNodesTryAdd(pn) ==
    /\ \E r \in {BucketTryAdd(friend.bootstrap_nodes, friend.pk, pn, now)} :
        /\ friend' = [friend EXCEPT !.bootstrap_nodes = r.bucket]
        /\ ret' = [op |-> "try_add", list |-> "bootstrap_nodes", pn |-> pn,
                   pre |-> friend.bootstrap_nodes, ok |-> r.ok, at |-> now]
    /\ UNCHANGED <<now, node, request_queue, codecs, buf, nodes_req_sent>>

\* the peers a friend learns of: each key at its own address
FriendPackedNodes ==
    {PackedNode(SockV4(AddrV4(1, 33445 + k)), k) : k \in 0 .. MaxFriendKey}

\* clock steps of the friend specification
FriendSteps == {PING_INTERVAL}

FriendNext ==
    \/ \E d \in FriendSteps : now + d <= MaxFriendClock /\ Tick(d)
    \/ \E pn \in FriendPackedNodes : CloseNodesTryAdd(pn)
    \/ \E pn \in FriendPackedNodes : BootstrapNodesTryAdd(pn)
    \/ \E r1, r2 \in RandomUsize : SendNodesReqPackets(r1, r2)

FriendInit ==
    /\ now = 0
    /\ node = None
    /\ friend = DhtFriendNew(Pow2(KeyBits) - 1)
    /\ request_queue = RequestQueueNew
    /\ codecs = None
    /\ buf = None
    /\ nodes_req_sent = NoNodesReqSent
    /\ ret = [op |-> "new"]

SpecFriend == FriendInit /\ [][FriendNext]_vars

\* The maintenance cycle over a close-node list whose entries age: with
\* these clock steps an entry that is not heard from again is bad after 3
\* steps (183 s > BAD_NODE_TIMEOUT, and > KILL_NODE_TIMEOUT too) while one
\* learned a step later is not (122 s).
ExpirySteps == {PING_INTERVAL + 1}

ExpiryNext ==
    \/ \E d \in ExpirySteps : Tick(d)
    \/ \E pn \in FriendPackedNodes : CloseNodesTryAdd(pn)
    \/ \E r1, r2 \in RandomUsize : SendNodesReqPackets(r1, r2)

SpecExpiry == FriendInit /\ [][ExpiryNext]_vars

\* The maintenance cycle at clock times a second short of the ping interval
\* and at the interval: the gaps between two cycles are 0, 1, 59, 60 and more.
RefreshSteps == {PING_INTERVAL - 1, PING_INTERVAL}

RefreshNext ==
    \/ \E d \in RefreshSteps : now + d <= MaxFriendClock /\ Tick(d)
    \/ \E pn \in FriendPackedNodes : CloseNodesTryAdd(pn)
    \/ \E r1, r2 \in RandomUsize : SendNodesReqPackets(r1, r2)

SpecRefresh == FriendInit /\ [][RefreshNext]_vars

----------------------------------------------------------------------------
(* The weighted random selection on its own *)

SelectInit ==
    /\ now = 0
    /\ node = None
    /\ friend = None
    /\ request_queue = RequestQueueNew
    /\ codecs = None
    /\ buf = None
    /\ nodes_req_sent = None
    /\ ret = [op |-> "new"]

\* lines 115-120 of send_nodes_req_random on a pool of num_nodes nodes
SelectRandomNode(num_nodes, r1, r2) ==
    /\ ret' = [op |-> "random_node", num_nodes |-> num_nodes, r1 |-> r1, r2 |-> r2,
               random_node |-> RandomNode(num_nodes, r1, r2)]
    /\ UNCHANGED <<now, node, friend, request_queue, codecs, buf, nodes_req_sent>>

SelectNext ==
    \E num_nodes \in 1 .. MaxPool : \E r1, r2 \in 0 .. MaxDraw :
        SelectRandomNode(num_nodes, r1, r2)

SpecSelect == SelectInit /\ [][SelectNext]_vars

----------------------------------------------------------------------------
(* tcp::packet and tcp::secure as the codec uses them *)

Ok(x) == [ok |-> TRUE, val |-> x]
Err(e) == [ok |-> FALSE, err |-> e]

\* nom::IResult
Done(consumed, out) == [tag |-> "Done", consumed |-> consumed, out |-> out]
Incomplete == [tag |-> "Incomplete"]
Error == [tag |-> "Error"]

MAX_TCP_PACKET_SIZE == MaxTcpPacketSize
\* the authentication tag of a ciphertext: 16 bytes in the program, one
\* number here
MACBYTES == 1
MAX_TCP_ENC_PACKET_SIZE == MAX_TCP_PACKET_SIZE + MACBYTES + 2

RouteRequest(pk) == [kind |-> "RouteRequest", pk |-> pk]
PingRequest(ping_id) == [kind |-> "PingRequest", ping_id |-> ping_id]
Data(connection_id, data) ==
    [kind |-> "Data", connection_id |-> connection_id, data |-> data]

\* Packet::to_bytes into a buffer of MAX_TCP_PACKET_SIZE bytes: the packet id
\* (the connection id for Data) and the fields
PacketToBytes(p) ==
    CASE p.kind = "RouteRequest" -> Ok(<<0, p.pk>>)
      [] p.kind = "PingRequest" -> Ok(<<4, p.ping_id>>)
      [] p.kind = "Data" ->
            IF 1 + Len(p.data) > MAX_TCP_PACKET_SIZE
            THEN Err("SerializeError")
            ELSE Ok(<<p.connection_id>> \o p.data)

\* Packet::from_bytes: a connection id below 0x10 is not one of Data
PacketFromBytes(bytes) ==
    IF bytes = <<>> THEN Incomplete
    ELSE IF bytes[1] = 0
    THEN IF Len(bytes) < 2 THEN Incomplete ELSE Done(2, RouteRequest(bytes[2]))
    ELSE IF bytes[1] = 4
    THEN IF Len(bytes) < 2 THEN Incomplete ELSE Done(2, PingRequest(bytes[2]))
    ELSE IF bytes[1] >= 16
    THEN Done(Len(bytes), Data(bytes[1], Tail(bytes)))
    ELSE Error

\* EncryptedPacket::to_bytes: the length of the payload as a big-endian u16,
\* then the payload
EncryptedPacketToBytes(payload) ==
    <<Len(payload) \div 256, Len(payload) % 256>> \o payload

\* EncryptedPacket::from_bytes
EncryptedPacketFromBytes(bytes) ==
    IF Len(bytes) < 2 THEN Incomplete
    ELSE LET length == bytes[1] * 256 + bytes[2]
         IN  IF length = 0 \/ length > MAX_TCP_ENC_PACKET_SIZE THEN Error
             ELSE IF Len(bytes) < 2 + length THEN Incomplete
             ELSE Done(2 + length, SubSeq(bytes, 3, 2 + length))

\* the authentication tag made with a key and a nonce
Mac(key, nonce) == 1000 * key + nonce

\* seal_precomputed: the tag, then the bytes masked with the key stream
Seal(plain, nonce, key) ==
    <<Mac(key, nonce)>> \o [i \in 1 .. Len(plain) |-> (plain[i] + key + nonce) % 256]

\* open_precomputed: fails unless the tag is the one of this key and nonce
Open(data, nonce, key) ==
    IF Len(data) < MACBYTES \/ data[1] # Mac(key, nonce)
    THEN Err("()")
    ELSE Ok([i \in 1 .. (Len(data) - 1) |->
                (data[i + 1] + 256 - ((key + nonce) % 256)) % 256])

\* secure::Channel: the precomputed key, the nonce of the next packet sent
\* and the nonce of the next packet received
Channel(key, sent_nonce, recv_nonce) ==
    [key |-> key, sent_nonce |-> sent_nonce, recv_nonce |-> recv_nonce]

\* Channel::encrypt: the nonce moves on
ChannelEncrypt(ch, plain) ==
    [channel |-> [ch EXCEPT !.sent_nonce = @ + 1],
     out |-> Seal(plain, ch.sent_nonce, ch.key)]

\* Channel::decrypt: the nonce moves on, whether the data opens or not
ChannelDecrypt(ch, data) ==
    [channel |-> [ch EXCEPT !.recv_nonce = @ + 1],
     out |-> Open(data, ch.recv_nonce, ch.key)]

----------------------------------------------------------------------------
(* tcp::codec *)

CodecNew(channel) == [channel |-> channel]

\* decode that takes the frame out of the buffer as soon as it is parsed
CodecDecode_earlysplit(codec, bytes) ==
    LET parsed == EncryptedPacketFromBytes(bytes)
    IN  IF parsed.tag = "Incomplete"
        THEN [codec |-> codec, buf |-> bytes, res |-> Ok(None)]
        ELSE IF parsed.tag = "Error"
        THEN [codec |-> codec, buf |-> bytes, res |-> Err("DeserializeEncryptedError")]
        ELSE LET consumed == parsed.consumed
                 rest == SubSeq(bytes, consumed + 1, Len(bytes))
                 d == ChannelDecrypt(codec.channel, parsed.out)
                 after == [codec EXCEPT !.channel = d.channel]
             IN  IF ~d.out.ok
                 THEN [codec |-> after, buf |-> rest, res |-> Err("DecryptError")]
                 ELSE LET packet == PacketFromBytes(d.out.val)
                      IN  IF packet.tag = "Incomplete"
                          THEN [codec |-> after, buf |-> rest,
                                res |-> Err("IncompleteDecryptedPacket")]
                          ELSE IF packet.tag = "Error"
                          THEN [codec |-> after, buf |-> rest,
                                res |-> Err("DeserializeDecryptedError")]
                          ELSE [codec |-> after, buf |-> rest,
                                res |-> Ok(Some(packet.out))]

\* Decoder::decode: the codec and the buffer after the call, and the result
CodecDecode(codec, bytes) ==
    LET parsed == EncryptedPacketFromBytes(bytes)
    IN  IF parsed.tag = "Incomplete"
        THEN [codec |-> codec, buf |-> bytes, res |-> Ok(None)]
        ELSE IF parsed.tag = "Error"
        THEN [codec |-> codec, buf |-> bytes, res |-> Err("DeserializeEncryptedError")]
        ELSE LET consumed == parsed.consumed
                 d == ChannelDecrypt(codec.channel, parsed.out)
                 after == [codec EXCEPT !.channel = d.channel]
             IN  IF ~d.out.ok
                 THEN [codec |-> after, buf |-> bytes, res |-> Err("DecryptError")]
                 ELSE LET packet == PacketFromBytes(d.out.val)
                      IN  IF packet.tag = "Incomplete"
                          THEN [codec |-> after, buf |-> bytes,
                                res |-> Err("IncompleteDecryptedPacket")]
                          ELSE IF packet.tag = "Error"
                          THEN [codec |-> after, buf |-> bytes,
                                res |-> Err("DeserializeDecryptedError")]
                          ELSE [codec |-> after,
                                buf |-> SubSeq(bytes, consumed + 1, Len(bytes)),
                                res |-> Ok(Some(packet.out))]

\* encode that frames the serialized packet without encrypting it
CodecEncode_plain(codec, packet, bytes) ==
    LET serialized == PacketToBytes(packet)
    IN  IF ~serialized.ok
        THEN [codec |-> codec, buf |-> bytes, res |-> Err("SerializeError")]
        ELSE [codec |-> codec,
              buf |-> bytes \o EncryptedPacketToBytes(serialized.val),
              res |-> Ok(<<>>)]

\* Encoder::encode
CodecEncode(codec, packet, bytes) ==
    LET serialized == PacketToBytes(packet)
    IN  IF ~serialized.ok
        THEN [codec |-> codec, buf |-> bytes, res |-> Err("SerializeError")]
        ELSE LET e == ChannelEncrypt(codec.channel, serialized.val)
             IN  [codec |-> [codec EXCEPT !.channel = e.channel],
                  buf |-> bytes \o EncryptedPacketToBytes(e.out),
                  res |-> Ok(<<>>)]

\* create_channels: Alice and Bob hold the two ends of one channel, Mallory
\* an end of another.  Each session has its own key and nonce.
Parties == {"alice", "bob", "mallory"}
Peer(who) == CASE who = "alice" -> "bob" [] who = "bob" -> "alice" [] OTHER -> "nobody"
SessionNonce(who) ==
    CASE who = "alice" -> 0 [] who = "bob" -> 10 [] who = "mallory" -> 20 [] OTHER -> 30
PrecomputedKey(who) == IF who = "mallory" THEN 2 ELSE 1

create_channels ==
    [who \in Parties |->
        CodecNew(Channel(PrecomputedKey(who), SessionNonce(who), SessionNonce(Peer(who))))]

\* the packets encoded: the last two serialize but do not parse back
\* (connection id 0x0F) or do not serialize (one byte too long)
TestPackets ==
    { RouteRequest(7),
      PingRequest(42),
      Data(16, <<13>>),
      Data(15, <<13>>),
      Data(42, [i \in 1 .. MAX_TCP_PACKET_SIZE |-> 13]) }

\* the packets that serialize and parse back
ValidPackets == {RouteRequest(7), PingRequest(42), Data(16, <<13>>)}

\* raw bytes put into the buffer: a lone byte, a zero length, and a header
\* without its payload
RawSlices == {<<0>>, <<0, 0>>, <<0, 3>>}

\* ret.wire lists what the buffer holds, in order: for a frame who encoded
\* it, with which nonce, from which packet (None for raw plaintext) and its
\* length in bytes; for a raw slice its length
Frame(from, nonce, packet, len) ==
    [from |-> from, nonce |-> nonce, packet |-> packet, len |-> len]

CodecInit ==
    /\ now = 0
    /\ node = None
    /\ friend = None
    /\ request_queue = RequestQueueNew
    /\ codecs = create_channels
    /\ buf = <<>>
    /\ nodes_req_sent = None
    /\ ret = [op |-> "new", wire |-> <<>>]

\* codec.encode(packet, &mut buf)
Encode(who, packet) ==
    /\ Len(ret.wire) < MaxFrames
    /\ codecs[who].channel.sent_nonce < SessionNonce(who) + MaxNonce
    /\ \E r \in {CodecEncode(codecs[who], packet, buf)} :
        /\ codecs' = [codecs EXCEPT ![who] = r.codec]
        /\ buf' = r.buf
        /\ ret' = [op |-> "encode", who |-> who, packet |-> packet, res |-> r.res,
                   pre_buf |-> buf, pre_codec |-> codecs[who],
                   wire |-> IF r.res.ok
                            THEN Append(ret.wire,
                                        Frame(who, codecs[who].channel.sent_nonce,
                                              Some(packet), Len(r.buf) - Len(buf)))
                            ELSE ret.wire]
    /\ UNCHANGED <<now, node, friend, request_queue, nodes_req_sent>>

\* buf.extend(encode_bytes_to_packet(&channel, bytes)): a frame around raw
\* plaintext
EncodeBytesToPacket(who, bytes) ==
    /\ Len(ret.wire) < MaxFrames
    /\ codecs[who].channel.sent_nonce < SessionNonce(who) + MaxNonce
    /\ \E e \in {ChannelEncrypt(codecs[who].channel, bytes)} :
        /\ codecs' = [codecs EXCEPT ![who].channel = e.channel]
        /\ buf' = buf \o EncryptedPacketToBytes(e.out)
        /\ ret' = [op |-> "encode_bytes_to_packet", who |-> who,
                   wire |-> Append(ret.wire,
                                   Frame(who, codecs[who].channel.sent_nonce, None,
                                         2 + Len(e.out)))]
    /\ UNCHANGED <<now, node, friend, request_queue, nodes_req_sent>>

\* buf.extend_from_slice(bytes)
ExtendFromSlice(bytes) ==
    /\ Len(ret.wire) < MaxFrames
    /\ buf' = buf \o bytes
    /\ ret' = [op |-> "extend_from_slice",
               wire |-> Append(ret.wire, Frame("raw", 0, None, Len(bytes)))]
    /\ UNCHANGED <<now, node, friend, request_queue, codecs, nodes_req_sent>>

\* buf.clear()
Clear ==
    /\ buf # <<>>
    /\ buf' = <<>>
    /\ ret' = [op |-> "clear", wire |-> <<>>]
    /\ UNCHANGED <<now, node, friend, request_queue, codecs, nodes_req_sent>>

\* codec.decode(&mut buf)
Decode(who) ==
    /\ codecs[who].channel.recv_nonce < SessionNonce(Peer(who)) + MaxNonce
    /\ \E r \in {CodecDecode(codecs[who], buf)} :
        /\ codecs' = [codecs EXCEPT ![who] = r.codec]
        /\ buf' = r.buf
        /\ ret' = [op |-> "decode", who |-> who, res |-> r.res,
                   pre_buf |-> buf, pre_codec |-> codecs[who],
                   pre_wire |-> ret.wire,
                   wire |-> IF r.res.ok /\ IsSome(r.res.val)
                            THEN Tail(ret.wire)
                            ELSE ret.wire]
    /\ UNCHANGED <<now, node, friend, request_queue, nodes_req_sent>>

CodecNext ==
    \/ \E who \in {"alice", "bob"} : \E packet \in TestPackets : Encode(who, packet)
    \/ \E who \in {"alice", "bob"} : EncodeBytesToPacket(who, <<0>>)
    \/ \E bytes \in RawSlices : ExtendFromSlice(bytes)
    \/ Clear
    \/ \E who \in Parties : Decode(who)

SpecCodec == CodecInit /\ [][CodecNext]_vars

----------------------------------------------------------------------------
(* Claims about the close-node list *)

Pks(nodes) == {nodes[i].pk : i \in 1 .. Len(nodes)}
Entries(nodes) == {nodes[i] : i \in 1 .. Len(nodes)}
CloseNodes == friend.close_nodes.nodes
Capacity == friend.close_nodes.capacity
CalledTryAdd == ret.op = "try_add" /\ ret.list = "close_nodes"
Candidate == DhtNodeNew(ret.pn, ret.at)
CandidateIsNew == ret.pn.pk \notin Pks(ret.pre.nodes)
WasFull == Len(ret.pre.nodes) = ret.pre.capacity

\* the entry of the list before the call that every other entry outranks:
\* a bad entry if there is one, and among those of its tier the farthest
PreWorst ==
    CHOOSE w \in Entries(ret.pre.nodes) :
        \A n \in Entries(ret.pre.nodes) \ {w} :
            \/ ~DhtNodeIsBad(n, ret.at) /\ DhtNodeIsBad(w, ret.at)
            \/ /\ DhtNodeIsBad(n, ret.at) = DhtNodeIsBad(w, ret.at)
               /\ Distance(friend.pk, n.pk) < Distance(friend.pk, w.pk)

\* C1: whatever try_add calls are made, and whenever, the list never holds
\* more entries than its capacity.
C1_NeverOverCapacity ==
    Len(CloseNodes) <= Capacity

\* a try_add of a new key on a full list
C1_Witness ==
    /\ CalledTryAdd /\ WasFull /\ CandidateIsNew
    /\ Len(CloseNodes) = Capacity

C3_CloserCandidateEvictsWorst ==
    ( /\ CalledTryAdd /\ WasFull /\ CandidateIsNew /\ ret.pre.capacity > 0
      /\ ~DhtNodeIsBad(Candidate, ret.at)
      /\ Distance(friend.pk, ret.pn.pk) < Distance(friend.pk, PreWorst.pk) ) =>
        /\ ret.ok
        /\ Entries(CloseNodes) = (Entries(ret.pre.nodes) \ {PreWorst}) \cup {Candidate}
        /\ Len(CloseNodes) = Capacity
        /\ ret.pn.pk \in Pks(CloseNodes)

\* the closer candidate takes the place of a good worst entry
C3_Witness ==
    /\ CalledTryAdd /\ WasFull /\ CandidateIsNew /\ ret.pre.capacity > 0
    /\ ~DhtNodeIsBad(PreWorst, ret.at)
    /\ Distance(friend.pk, ret.pn.pk) < Distance(friend.pk, PreWorst.pk)
    /\ ret.ok

\* C4: on a list full of entries that are not bad, try_add of a new peer
\* farther from the reference key than every entry returns false and leaves
\* the list as it was.
C4_FartherCandidateRejected ==
    ( /\ CalledTryAdd /\ WasFull /\ CandidateIsNew
      /\ \A n \in Entries(ret.pre.nodes) :
            /\ ~DhtNodeIsBad(n, ret.at)
            /\ Distance(friend.pk, n.pk) < Distance(friend.pk, ret.pn.pk) ) =>
        /\ ~ret.ok
        /\ friend.close_nodes = ret.pre

\* a farther peer was offered to a full list of good entries
C4_Witness ==
    /\ CalledTryAdd /\ WasFull /\ CandidateIsNew /\ ret.pre.capacity > 0
    /\ \A n \in Entries(ret.pre.nodes) :
            /\ ~DhtNodeIsBad(n, ret.at)
            /\ Distance(friend.pk, n.pk) < Distance(friend.pk, ret.pn.pk)
    /\ ~ret.ok

\* C5: health dominates distance: a new candidate (never bad when it is
\* learned) offered to a full list whose worst-ranked entry is bad takes
\* that entry's place even when it is farther from the reference key, and
\* in the list it leaves no bad entry stands before a good one.
C5_HealthBeforeDistance ==
    ( /\ CalledTryAdd /\ WasFull /\ CandidateIsNew /\ ret.pre.capacity > 0
      /\ DhtNodeIsBad(PreWorst, ret.at) ) =>
        /\ ~DhtNodeIsBad(Candidate, ret.at)
        /\ ret.ok
        /\ PreWorst.pk \notin Pks(CloseNodes)
        /\ Candidate \in Entries(CloseNodes)
        /\ \A i, j \in 1 .. Len(CloseNodes) :
               (i < j /\ DhtNodeIsBad(CloseNodes[i], now)) => DhtNodeIsBad(CloseNodes[j], now)

\* a farther candidate took the place of a bad entry
C5_Witness ==
    /\ CalledTryAdd /\ WasFull /\ CandidateIsNew /\ ret.pre.capacity > 0
    /\ DhtNodeIsBad(PreWorst, ret.at)
    /\ Distance(friend.pk, PreWorst.pk) < Distance(friend.pk, ret.pn.pk)
    /\ ret.ok
    /\ PreWorst.pk \notin Pks(CloseNodes)

\* C6: try_add of a key the list already holds returns true, full list or
\* not, and leaves the list with the same keys and the same length; no key
\* ever appears twice.
C6_PresentKeyUpdated ==
    /\ Cardinality(Pks(CloseNodes)) = Len(CloseNodes)
    /\ (CalledTryAdd /\ ~CandidateIsNew) =>
           /\ ret.ok
           /\ Len(CloseNodes) = Len(ret.pre.nodes)
           /\ Pks(CloseNodes) = Pks(ret.pre.nodes)

\* a key of a full list was offered again
C6_Witness ==
    /\ CalledTryAdd /\ ~CandidateIsNew /\ WasFull
    /\ ret.ok

----------------------------------------------------------------------------
(* Claims about the maintenance cycle *)

CalledCycle == ret.op = "send_nodes_req_packets"
BootstrapSent == SelectSeq(ret.sent, LAMBDA q : q.query.task = "bootstrap")

\* C7: one maintenance cycle makes exactly one query per node that was in
\* the bootstrap list when it began, to that node's address, with a ping id
\* minted for that node's key and accepted by check_ping_id for it; the
\* bootstrap list is empty afterwards, and a cycle run right after another
\* makes no bootstrap query.
C7_BootstrapDrainedOnce ==
    CalledCycle =>
        LET candidates == ret.pre.bootstrap_nodes.nodes
        IN  /\ Len(BootstrapSent) = Len(candidates)
            /\ \A i \in 1 .. Len(candidates) :
                   LET q == BootstrapSent[i].query
                   IN  /\ q.target.pk = candidates[i].pk
                       /\ Some(q.target.saddr) = DhtNodeGetSocketAddr(candidates[i], TRUE)
                       /\ q.pk = friend.pk
                       /\ CheckPingId(request_queue, candidates[i].pk, q.id)
            /\ \A i, j \in 1 .. Len(ret.sent) :
                   i # j => ret.sent[i].query.id # ret.sent[j].query.id
            /\ friend.bootstrap_nodes.nodes = <<>>
            /\ ret.again => BootstrapSent = <<>>

\* a cycle that began with two bootstrap nodes
C7_Witness ==
    /\ CalledCycle
    /\ Len(ret.pre.bootstrap_nodes.nodes) = 2
    /\ Len(BootstrapSent) = 2
    /\ BootstrapSent[1].query.target.pk # BootstrapSent[2].query.target.pk

----------------------------------------------------------------------------
(* Claims about the liveness tracker *)

\* C8: ping_addr returns the stored address and stamps last_ping_req_time
\* with the current time exactly when the tracker is not discarded and the
\* ping interval has passed; in every other case (a tracker without an
\* address included) it returns None and leaves the tracker as it was.
C8_PingAddrIffLiveAndDue ==
    ret.op = "ping_addr" =>
        LET s == ret.pre
            t == ret.at
            go == ~SockIsDiscarded(s, t) /\ SockIsPingIntervalPassed(s, t)
        IN  /\ ret.post \in Trackers(node)
            /\ go => /\ IsSome(s.saddr)
                     /\ ret.out = s.saddr
                     /\ ret.post = [s EXCEPT !.last_ping_req_time = Some(t)]
            /\ ~go => ret.out = None /\ ret.post = s
            /\ IsNone(s.saddr) => ret.out = None /\ ret.post = s

\* a tracker queried before is queried again once the interval has passed
C8_Witness ==
    /\ ret.op = "ping_addr"
    /\ IsSome(ret.out)
    /\ IsSome(ret.pre.last_ping_req_time)
    /\ ret.post.last_ping_req_time = Some(now)

\* C9: a ping_addr call less than PING_INTERVAL seconds after the last
\* stamped query returns None and keeps the earlier stamp; a call 60 seconds
\* or more after it is due again (and is answered with the address unless
\* the tracker has been discarded meanwhile).
C9_SecondQueryThrottled ==
    (ret.op = "ping_addr" /\ IsSome(ret.pre.last_ping_req_time)) =>
        LET s == ret.pre
            p == Unwrap(s.last_ping_req_time)
            e == ret.at - p
        IN  /\ e < PING_INTERVAL => /\ ret.out = None
                         /\ ret.post.last_ping_req_time = Some(p)
            /\ (e >= PING_INTERVAL /\ ~SockIsDiscarded(s, ret.at)) =>
                         /\ ret.out = s.saddr
                         /\ IsSome(ret.out)
                         /\ ret.post.last_ping_req_time = Some(ret.at)

\* the second call comes 59 seconds after the first
C9_Witness ==
    /\ ret.op = "ping_addr"
    /\ IsSome(ret.pre.last_ping_req_time)
    /\ ret.at - Unwrap(ret.pre.last_ping_req_time) = PING_INTERVAL - 1
    /\ ~SockIsDiscarded(ret.pre, ret.at)
    /\ ret.out = None

\* C10: at every clock value a discarded (expired) tracker is also bad
\* (stale): KILL_NODE_TIMEOUT is longer than BAD_NODE_TIMEOUT.
C10_DiscardedImpliesBad ==
    /\ KILL_NODE_TIMEOUT > BAD_NODE_TIMEOUT
    /\ \A s \in Trackers(node) : SockIsDiscarded(s, now) => SockIsBad(s, now)

\* a tracker that has responded once and is bad but not yet discarded
C10_Witness ==
    \E s \in Trackers(node) :
        /\ IsSome(s.last_resp_time)
        /\ SockIsBad(s, now)
        /\ ~SockIsDiscarded(s, now)

\* C11: a tracker is bad exactly when it has never had a response or its
\* last response is more than 122 seconds (2 * PING_INTERVAL + 2) old; at
\* exactly 122 seconds it is not yet bad.
C11_BadStrictlyAfter122 ==
    /\ BAD_NODE_TIMEOUT = 122
    /\ \A s \in Trackers(node) :
           /\ IsNone(s.last_resp_time) => SockIsBad(s, now)
           /\ IsSome(s.last_resp_time) =>
                  (SockIsBad(s, now) <=> now - Unwrap(s.last_resp_time) > 122)

\* a tracker whose last response is exactly 122 seconds old
C11_Witness ==
    \E s \in Trackers(node) :
        /\ IsSome(s.last_resp_time)
        /\ now - Unwrap(s.last_resp_time) = 122
        /\ ~SockIsBad(s, now)

\* the time of the most recent response of either family, None when neither
\* has had one
LatestResponse(n) ==
    IF OptGe(n.assoc4.last_resp_time, n.assoc6.last_resp_time)
    THEN n.assoc4.last_resp_time
    ELSE n.assoc6.last_resp_time

\* C12: a node whose most recent response is at most 162 seconds old is a
\* good node: is_bad() is false for it.
C12_GoodWithin162 ==
    (IsSome(LatestResponse(node)) /\ now - Unwrap(LatestResponse(node)) <= 162) =>
        ~DhtNodeIsBad(node, now)

\* C13: a node is bad exactly when both of its trackers are bad and
\* discarded exactly when both are discarded: one family that is not bad
\* keeps the node from being bad, one that is not discarded keeps it from
\* being discarded.
C13_BothFamilies ==
    /\ DhtNodeIsBad(node, now) <=> \A s \in Trackers(node) : SockIsBad(s, now)
    /\ DhtNodeIsDiscarded(node, now) <=> \A s \in Trackers(node) : SockIsDiscarded(s, now)
    /\ (\E s \in Trackers(node) : ~SockIsBad(s, now)) => ~DhtNodeIsBad(node, now)
    /\ (\E s \in Trackers(node) : ~SockIsDiscarded(s, now)) => ~DhtNodeIsDiscarded(node, now)

\* a node with an address of each family, the IPv4 one discarded and the
\* IPv6 one bad but not discarded: the node is bad and not discarded
C13_Witness ==
    /\ IsSome(node.assoc4.saddr) /\ IsSome(node.assoc6.saddr)
    /\ SockIsDiscarded(node.assoc4, now)
    /\ SockIsBad(node.assoc6, now) /\ ~SockIsDiscarded(node.assoc6, now)
    /\ DhtNodeIsBad(node, now)
    /\ ~DhtNodeIsDiscarded(node, now)

----------------------------------------------------------------------------
(* Claims about the addresses of a node *)

CalledGetSocketAddr == ret.op = "get_socket_addr"
HadBothAddrs == IsSome(ret.pre.assoc4.saddr) /\ IsSome(ret.pre.assoc6.saddr)
PreV4 == Some(SockV4(Unwrap(ret.pre.assoc4.saddr)))
PreV6 == Some(SockV6(Unwrap(ret.pre.assoc6.saddr)))
PreResp4 == Unwrap(ret.pre.assoc4.last_resp_time)
PreResp6 == Unwrap(ret.pre.assoc6.last_resp_time)

\* C14 as stated: with IPv6 enabled and an address of each family,
\* get_socket_addr returns the address of the family that responded more
\* recently, and the IPv6 address when the two response times are equal.
C14_TiesFavourIPv6 ==
    (CalledGetSocketAddr /\ ret.is_ipv6_enabled /\ HadBothAddrs) =>
        /\ PreResp4 > PreResp6 => ret.out = PreV4
        /\ PreResp6 > PreResp4 => ret.out = PreV6
        /\ PreResp4 = PreResp6 => ret.out = PreV6

\* C14 amended: with IPv6 enabled and an address of each family,
\* get_socket_addr returns the address of the family that responded more
\* recently, and the IPv4 address when the two response times are equal.
C14_TiesFavourIPv4 ==
    (CalledGetSocketAddr /\ ret.is_ipv6_enabled /\ HadBothAddrs) =>
        /\ PreResp4 > PreResp6 => ret.out = PreV4
        /\ PreResp6 > PreResp4 => ret.out = PreV6
        /\ PreResp4 = PreResp6 => ret.out = PreV4

\* both families responded at the same second some time ago
C14_Witness ==
    /\ CalledGetSocketAddr /\ ret.is_ipv6_enabled /\ HadBothAddrs
    /\ PreResp4 = PreResp6
    /\ PreResp4 < now
    /\ ret.out = PreV4

CalledGetAllAddrs == ret.op = "get_all_addrs"
Held4(n) == IF IsSome(n.assoc4.saddr) THEN {SockV4(Unwrap(n.assoc4.saddr))} ELSE {}
Held6(n) == IF IsSome(n.assoc6.saddr) THEN {SockV6(Unwrap(n.assoc6.saddr))} ELSE {}
Range(seq) == {seq[i] : i \in 1 .. Len(seq)}

\* C15: get_all_addrs returns, each once, every address the node holds when
\* IPv6 is enabled and only the IPv4 address when it is disabled (so the
\* empty sequence when the node holds none under that mode, and never an
\* IPv6 address when IPv6 is disabled); it leaves the node as it was.
C15_AllAddrs ==
    CalledGetAllAddrs =>
        LET held == IF ret.is_ipv6_enabled
                    THEN Held4(ret.pre) \cup Held6(ret.pre)
                    ELSE Held4(ret.pre)
        IN  /\ Range(ret.out) = held
            /\ Len(ret.out) = Cardinality(held)
            /\ held = {} => ret.out = <<>>
            /\ ~ret.is_ipv6_enabled => \A a \in Range(ret.out) : a.fam = "V4"
            /\ node = ret.pre

\* IPv6 disabled on a node that holds an address of each family
C15_Witness ==
    /\ CalledGetAllAddrs /\ ~ret.is_ipv6_enabled
    /\ Held4(ret.pre) # {} /\ Held6(ret.pre) # {}
    /\ Len(ret.out) = 1

CalledNew == ret.op = "new"

\* C16: DhtNode::new gives an address to exactly one tracker: an IPv4
\* address, and an IPv4-mapped IPv6 address converted to IPv4, to the IPv4
\* tracker; every other IPv6 address to the IPv6 tracker.  The other tracker
\* has no address.
C16_OneTrackerPopulated ==
    CalledNew =>
        LET a == ret.pn.saddr
        IN  /\ IsSome(node.assoc4.saddr) # IsSome(node.assoc6.saddr)
            /\ a.fam = "V4" =>
                   node.assoc4.saddr = Some(a.v4) /\ IsNone(node.assoc6.saddr)
            /\ (a.fam = "V6" /\ a.v6.seg = "mapped") =>
                   /\ node.assoc4.saddr = Some(AddrV4(a.v6.low, a.v6.port))
                   /\ IsNone(node.assoc6.saddr)
            /\ (a.fam = "V6" /\ a.v6.seg # "mapped") =>
                   node.assoc6.saddr = Some(a.v6) /\ IsNone(node.assoc4.saddr)

----------------------------------------------------------------------------
(* Claims about the refresh and exploration sub-tasks *)

CloseSent == SelectSeq(ret.sent, LAMBDA q : q.query.task = "close")
RandomSent == SelectSeq(ret.sent, LAMBDA q : q.query.task = "random")
PreCloseNodes == ret.pre.close_nodes.nodes
SentTo(sent, pk) == \E i \in 1 .. Len(sent) : sent[i].query.target.pk = pk

\* C17: a cycle sends a refresh query to an entry of the close-node list
\* only if the entry is not discarded and its ping interval has passed; an
\* entry that has not responded for more than KILL_NODE_TIMEOUT seconds gets
\* no refresh query.
C17_RefreshHonoursBothGates ==
    CalledCycle =>
        \A i \in 1 .. Len(PreCloseNodes) :
            LET n == PreCloseNodes[i]
            IN  SentTo(CloseSent, n.pk) =>
                    /\ ~DhtNodeIsDiscarded(n, ret.at)
                    /\ \/ IsNone(n.last_ping_req_time)
                       \/ ret.at - Unwrap(n.last_ping_req_time) >= PING_INTERVAL

\* the early return of send_nodes_req_random is taken by the cycle recorded
Throttled ==
    /\ IsSome(ret.pre.last_nodes_req_time)
    /\ ret.at - Unwrap(ret.pre.last_nodes_req_time) < NODES_REQ_INTERVAL
    /\ ret.pre.bootstrap_times >= MAX_BOOTSTRAP_TIMES

\* the entries of the close-node list that were not bad when the cycle ran
Pool == SelectSeq(PreCloseNodes, LAMBDA n : ~DhtNodeIsBad(n, ret.at))

\* C18: exploration is skipped, with no query and the counter and the
\* timestamp untouched, exactly when the last exploration query is less than
\* NODES_REQ_INTERVAL seconds old and the counter has reached
\* MAX_BOOTSTRAP_TIMES; otherwise, given an entry that is not bad, one
\* query is sent, also within the interval while the counter is below the
\* cap.  At the cap two exploration queries are at least the interval apart.
C18_ExplorationThrottle ==
    CalledCycle =>
        /\ Throttled =>
               /\ RandomSent = <<>>
               /\ friend.bootstrap_times = ret.pre.bootstrap_times
               /\ friend.last_nodes_req_time = ret.pre.last_nodes_req_time
        /\ (~Throttled /\ Pool # <<>>) =>
               /\ Len(RandomSent) = 1
               /\ friend.last_nodes_req_time = Some(ret.at)
        /\ ( /\ RandomSent # <<>>
             /\ ret.pre.bootstrap_times >= MAX_BOOTSTRAP_TIMES
             /\ IsSome(ret.pre.last_nodes_req_time) ) =>
               ret.at - Unwrap(ret.pre.last_nodes_req_time) >= NODES_REQ_INTERVAL

\* a cycle at the cap, in the second of the last exploration query, with a
\* good entry to explore
C18_Witness ==
    /\ CalledCycle /\ Throttled
    /\ Pool # <<>>
    /\ RandomSent = <<>>

\* C19: when exploration is not throttled, its target is one of the entries
\* of the close-node list that are not bad (so its index lies within the
\* pool); with such an entry exactly one query is sent, to the address and
\* key of the entry chosen, the counter grows by exactly one and the
\* timestamp becomes the current time; without one nothing is sent and the
\* counter and the timestamp stay as they were.
C19_ExplorationTarget ==
    (CalledCycle /\ ~Throttled) =>
        /\ Pool # <<>> =>
               /\ Len(RandomSent) = 1
               /\ \E i \in 1 .. Len(Pool) :
                      /\ RandomSent[1].query.target.pk = Pool[i].pk
                      /\ Some(RandomSent[1].query.target.saddr) =
                             DhtNodeGetSocketAddr(Pool[i], TRUE)
               /\ friend.bootstrap_times = ret.pre.bootstrap_times + 1
               /\ friend.last_nodes_req_time = Some(ret.at)
        /\ Pool = <<>> =>
               /\ RandomSent = <<>>
               /\ friend.bootstrap_times = ret.pre.bootstrap_times
               /\ friend.last_nodes_req_time = ret.pre.last_nodes_req_time

\* exploration over a list of a good and a bad entry
C19_Witness ==
    /\ CalledCycle /\ ~Throttled
    /\ Len(PreCloseNodes) = 2 /\ Len(Pool) = 1
    /\ Len(RandomSent) = 1

\* C20: a send that fails during a cycle is isolated: every other query
\* the cycle made is delivered and the cycle itself does not fail, whichever
\* of the bootstrap, refresh and exploration queries it is.
C20_SendFailureIsolated ==
    CalledCycle =>
        \A i \in 1 .. Len(ret.sent) :
            ~ret.sent[i].delivered =>
                /\ \A j \in 1 .. Len(ret.sent) : j # i => ret.sent[j].delivered
                /\ ret.is_ok

----------------------------------------------------------------------------
(* Claims about the weighted random selection *)

RECURSIVE SumSeq(_)
SumSeq(seq) == IF seq = <<>> THEN 0 ELSE Head(seq) + SumSeq(Tail(seq))

RECURSIVE Factorial(_)
Factorial(n) == IF n = 0 THEN 1 ELSE n * Factorial(n - 1)

\* k * k! times the probability that index j is picked in a pool of k, the
\* first draw being uniform over 0 .. k-1 and the second over 0 .. first:
\* the pair (first, second) has probability 1 / (k * (first + 1))
Weight(k, j) ==
    SumSeq([a \in 1 .. k |->
        SumSeq([b \in 1 .. a |->
            IF RandomNode(k, a - 1, b - 1) = j THEN Factorial(k) \div a ELSE 0])])

\* C21: in a pool of k nodes index 0 is picked with probability at least
\* 1/k, and more than 1/k when k > 1; every index of the pool has a chance
\* above zero; the probabilities add up to one and the index picked is
\* never beyond the first draw.
C21_WeightedTowardsFirst ==
    ret.op = "random_node" =>
        LET k == ret.num_nodes
        IN  /\ Weight(k, 0) >= Factorial(k)
            /\ k > 1 => Weight(k, 0) > Factorial(k)
            /\ \A j \in 0 .. (k - 1) : Weight(k, j) > 0
            /\ SumSeq([j \in 1 .. k |-> Weight(k, j - 1)]) = k * Factorial(k)
            /\ ret.random_node \in 0 .. (k - 1)
            /\ ret.random_node <= ret.r1 % k

\* a draw on the largest pool where the second draw moved the index down
C21_Witness ==
    /\ ret.op = "random_node"
    /\ ret.num_nodes = MaxPool
    /\ ret.random_node < ret.r1 % ret.num_nodes
    /\ ret.random_node > 0

----------------------------------------------------------------------------
(* Claims about the tcp codec *)

CalledDecode == ret.op = "decode"
CalledEncode == ret.op = "encode"

\* a packet whose fields are within the limits of its kind
IsValidPacket(p) ==
    p.kind = "Data" => (p.connection_id >= 16 /\ 1 + Len(p.data) <= MAX_TCP_PACKET_SIZE)

\* a packet that does not fit the MAX_TCP_PACKET_SIZE bytes of encode
TooLong(p) == p.kind = "Data" /\ 1 + Len(p.data) > MAX_TCP_PACKET_SIZE

\* the buffer began with a frame that the peer of the decoding party made
\* from a valid packet, with the nonce the decoding party expects next
NextIsPeerFrame ==
    /\ ret.pre_wire # <<>>
    /\ ret.pre_wire[1].from = Peer(ret.who)
    /\ ret.pre_wire[1].nonce = ret.pre_codec.channel.recv_nonce
    /\ IsSome(ret.pre_wire[1].packet)
    /\ IsValidPacket(Unwrap(ret.pre_wire[1].packet))

\* C22: each decode call by the peer of the encoding party returns the
\* next packet that party encoded, equal in value and in the order of
\* encoding, takes its frame and nothing else out of the buffer and leaves
\* the two channels in step for the packet after it, in either direction;
\* encode of a packet too long to serialize returns an error and leaves the
\* buffer and the channel as they were.
C22_RoundTrip ==
    /\ (CalledDecode /\ NextIsPeerFrame) =>
           /\ ret.res = Ok(ret.pre_wire[1].packet)
           /\ Len(buf) = Len(ret.pre_buf) - ret.pre_wire[1].len
           /\ codecs[ret.who].channel.recv_nonce = ret.pre_wire[1].nonce + 1
    /\ CalledEncode =>
           /\ IsValidPacket(ret.packet) => ret.res.ok
           /\ TooLong(ret.packet) =>
                  /\ ~ret.res.ok
                  /\ buf = ret.pre_buf
                  /\ codecs[ret.who] = ret.pre_codec

\* Alice decodes the first of two packets that Bob encoded
C22_Witness ==
    /\ CalledDecode /\ NextIsPeerFrame
    /\ ret.who = "alice"
    /\ Len(ret.pre_wire) = 2
    /\ ret.pre_wire[2].from = "bob"
    /\ ret.res.ok /\ IsSome(ret.res.val)
    /\ Unwrap(ret.res.val).kind = "Data"

\* C23: decode changes the buffer only when it returns a packet, and then
\* takes exactly the bytes of the first frame from its front; with less
\* than a whole frame in the buffer it returns Ok(None), and then and on
\* every error the buffer is as it was.
C23_DecodeConsumesOneFrame ==
    CalledDecode =>
        /\ (ret.res.ok /\ IsSome(ret.res.val)) =>
               /\ ret.pre_wire # <<>>
               /\ ret.pre_wire[1].from # "raw"
               /\ buf = SubSeq(ret.pre_buf, ret.pre_wire[1].len + 1, Len(ret.pre_buf))
        /\ (ret.res.ok /\ IsNone(ret.res.val)) => buf = ret.pre_buf
        /\ ~ret.res.ok => buf = ret.pre_buf
        /\ Len(ret.pre_buf) < 2 => ret.res = Ok(None)

\* Mallory fails to decrypt a whole frame that Alice encoded
C23_Witness ==
    /\ CalledDecode
    /\ ret.who = "mallory"
    /\ ret.pre_wire # <<>>
    /\ ret.pre_wire[1].from = "alice"
    /\ ret.res = Err("DecryptError")
    /\ buf = ret.pre_buf

----------------------------------------------------------------------------
(* Claims about the query timestamp *)

\* the time of the last query recorded by an entry of the close-node list:
\* by the entry itself and by each of its two trackers
QueryStamps(n) ==
    <<n.last_ping_req_time, n.assoc4.last_ping_req_time, n.assoc6.last_ping_req_time>>

\* C24: ping_addr is the only writer of the time of the last query: a
\* maintenance cycle leaves the query timestamps of every entry of the
\* close-node list as they were before it.
C24_CycleLeavesQueryStamps ==
    CalledCycle =>
        /\ Len(friend.close_nodes.nodes) = Len(PreCloseNodes)
        /\ \A i \in 1 .. Len(PreCloseNodes) :
               QueryStamps(friend.close_nodes.nodes[i]) = QueryStamps(PreCloseNodes[i])

\* the refresh queries of the cycle recorded that went to the key
RefreshesTo(pk) == SelectSeq(CloseSent, LAMBDA q : q.query.target.pk = pk)

\* C25: two refresh queries to the same peer are at least PING_INTERVAL
\* seconds apart whatever the times the cycles run at: a cycle sends a peer
\* at most one, and only if the last one it was sent is PING_INTERVAL
\* seconds old or older.  The time of the query is recorded on the entry
\* when the query is handed to the server, whether or not the send succeeds.
C25_RefreshesAnIntervalApart ==
    CalledCycle =>
        \A pk \in DOMAIN nodes_req_sent :
            /\ Len(RefreshesTo(pk)) <= 1
            /\ RefreshesTo(pk) # <<>> =>
                   /\ IsSome(ret.pre_sent[pk]) =>
                          ret.at - Unwrap(ret.pre_sent[pk]) >= PING_INTERVAL
                   /\ \E i \in 1 .. Len(friend.close_nodes.nodes) :
                          /\ friend.close_nodes.nodes[i].pk = pk
                          /\ friend.close_nodes.nodes[i].last_ping_req_time = Some(ret.at)

\* a cycle 59 seconds after a refresh query to a peer, which gets none, and
\* 118 seconds after one to another, which gets one
C25_Witness ==
    /\ CalledCycle
    /\ \E pk \in DOMAIN nodes_req_sent :
           /\ ret.pre_sent[pk] = Some(ret.at - (PING_INTERVAL - 1))
           /\ \E i \in 1 .. Len(PreCloseNodes) : PreCloseNodes[i].pk = pk
           /\ RefreshesTo(pk) = <<>>
    /\ \E pk \in DOMAIN nodes_req_sent :
           /\ IsSome(ret.pre_sent[pk])
           /\ Len(RefreshesTo(pk)) = 1

----------------------------------------------------------------------------
(* Claims about running the cycle again *)

\* the cycle recorded ran directly after another one, at the same clock
\* value, with no insertion between the two
RanAgainAtOnce == CalledCycle /\ ret.pre_at = Some(ret.at)

\* C26: a cycle run again at once leaves the friend as the first run left
\* it: the bootstrap list, the entries of the close-node list with their
\* timestamps, bootstrap_times and last_nodes_req_time.
C26_CycleIdempotent == RanAgainAtOnce => friend = ret.pre

\* C26, as the code has it: a cycle run again at once leaves the bootstrap
\* list, the close-node list and last_nodes_req_time as the first run left
\* them and sends no bootstrap and no refresh query; while bootstrap_times is
\* below MAX_BOOTSTRAP_TIMES and an entry is not bad it sends one more
\* exploration query and adds one to bootstrap_times, otherwise it sends
\* nothing and leaves bootstrap_times as it was.
C26_RerunCountsExploration ==
    RanAgainAtOnce =>
        /\ friend.bootstrap_nodes = ret.pre.bootstrap_nodes
        /\ friend.close_nodes = ret.pre.close_nodes
        /\ friend.last_nodes_req_time = ret.pre.last_nodes_req_time
        /\ BootstrapSent = <<>> /\ CloseSent = <<>>
        /\ IF Pool # <<>> /\ ret.pre.bootstrap_times < MAX_BOOTSTRAP_TIMES
           THEN /\ Len(RandomSent) = 1
                /\ friend.bootstrap_times = ret.pre.bootstrap_times + 1
           ELSE /\ RandomSent = <<>>
                /\ friend.bootstrap_times = ret.pre.bootstrap_times

\* a second run at once that counted one more exploration query
C26_Witness ==
    /\ RanAgainAtOnce
    /\ ret.pre.bootstrap_times = 1
    /\ friend.bootstrap_times = 2
    /\ Len(RandomSent) = 1

----------------------------------------------------------------------------
(* Claims about update_returned_addr *)

CalledUpdateReturnedAddr == ret.op = "update_returned_addr"

\* what the health and address queries of a node answer at time t
NodeAnswers(n, t) ==
    [ is_bad         |-> DhtNodeIsBad(n, t),
      is_discarded   |-> DhtNodeIsDiscarded(n, t),
      bad4           |-> SockIsBad(n.assoc4, t),
      bad6           |-> SockIsBad(n.assoc6, t),
      discarded4     |-> SockIsDiscarded(n.assoc4, t),
      discarded6     |-> SockIsDiscarded(n.assoc6, t),
      ping_due4      |-> SockIsPingIntervalPassed(n.assoc4, t),
      ping_due6      |-> SockIsPingIntervalPassed(n.assoc6, t),
      socket_addr    |-> [e \in BOOLEAN |-> DhtNodeGetSocketAddr(n, e)],
      all_addrs      |-> [e \in BOOLEAN |-> DhtNodeGetAllAddrs(n, e)] ]

\* C27: update_returned_addr sets ret_saddr to the address given and
\* ret_last_resp_time to the current time on the tracker of the family of
\* the address (an IPv4-mapped IPv6 address goes to the IPv6 tracker) and
\* changes nothing else: the other tracker and saddr, last_resp_time and
\* last_ping_req_time of both are as before, and so are the answers of
\* is_bad, is_discarded, is_ping_interval_passed and get_socket_addr.
C27_ReturnedAddrFrame ==
    CalledUpdateReturnedAddr =>
        /\ ret.addr.fam = "V4" =>
               node = [ret.pre EXCEPT !.assoc4.ret_saddr = Some(ret.addr.v4),
                                      !.assoc4.ret_last_resp_time = Some(ret.at)]
        /\ ret.addr.fam = "V6" =>
               node = [ret.pre EXCEPT !.assoc6.ret_saddr = Some(ret.addr.v6),
                                      !.assoc6.ret_last_resp_time = Some(ret.at)]
        /\ NodeAnswers(node, ret.at) = NodeAnswers(ret.pre, ret.at)

\* an address reported back on the tracker of a family the node is bad on,
\* 183 seconds after its last response, with the other family good
C27_Witness ==
    /\ CalledUpdateReturnedAddr
    /\ ret.addr.fam = "V4"
    /\ SockIsBad(ret.pre.assoc4, ret.at) /\ IsSome(ret.pre.assoc4.saddr)
    /\ ~SockIsBad(ret.pre.assoc6, ret.at)
    /\ IsSome(ret.pre.assoc4.last_ping_req_time)
    /\ node.assoc4.ret_last_resp_time = Some(ret.at)

----------------------------------------------------------------------------
(* Claims about a node just created *)

\* the tracker of a node that holds its address, and the other one
Populated(n) == IF IsSome(n.assoc4.saddr) THEN n.assoc4 ELSE n.assoc6
Unpopulated(n) == IF IsSome(n.assoc4.saddr) THEN n.assoc6 ELSE n.assoc4

\* a friend whose close-node list holds the node alone
FriendOf(n) == [DhtFriendNew(MaxKey) EXCEPT !.close_nodes.nodes = <<n>>]

\* C28: a node just created has the creation time as the response time of
\* the tracker that holds its address and none on the other; it is neither
\* bad nor discarded then and, unanswered, stays not bad through the next
\* BAD_NODE_TIMEOUT seconds and is bad the second after; its ping is due at
\* once, for ping_addr and for the refresh of a cycle; and exploration takes
\* it at once as a good node.
C28_FreshNodeIsGood ==
    CalledNew =>
        /\ Populated(node).last_resp_time = Some(ret.at)
        /\ IsNone(Unpopulated(node).saddr) /\ IsNone(Unpopulated(node).last_resp_time)
        /\ \A d \in 0 .. BAD_NODE_TIMEOUT :
               ~DhtNodeIsBad(node, ret.at + d) /\ ~DhtNodeIsDiscarded(node, ret.at + d)
        /\ DhtNodeIsBad(node, ret.at + BAD_NODE_TIMEOUT + 1)
        /\ SockPingAddr(Populated(node), ret.at).out = Populated(node).saddr
        /\ Len(PingAndGetCloseNodes(FriendOf(node), RequestQueueNew, ret.at).queries) = 1
        /\ \A r1, r2 \in RandomUsize :
               LET q == SendNodesReqRandom(FriendOf(node), RequestQueueNew, ret.at,
                                           r1, r2).queries
               IN  Len(q) = 1 /\ q[1].target = DhtNodeIntoPacked(node)

\* a node created anew, with an IPv6 address, once the one before it has
\* become discarded
C28_Witness ==
    /\ CalledNew
    /\ ret.at > KILL_NODE_TIMEOUT
    /\ IsSome(node.assoc6.saddr)
    /\ ~DhtNodeIsBad(node, now)

----------------------------------------------------------------------------
(* Claims about the two address queries together *)

\* C29: in every state of a node and for both values of is_ipv6_enabled,
\* get_socket_addr returns None exactly when get_all_addrs returns no
\* address, and an address it returns is one of those get_all_addrs
\* returns for the same flag; with IPv6 disabled a node that has an IPv6
\* address only gets None and no address.
C29_AddrQueriesAgree ==
    \A e \in BOOLEAN :
        LET addr == DhtNodeGetSocketAddr(node, e)
            addrs == DhtNodeGetAllAddrs(node, e)
        IN  /\ IsNone(addr) <=> addrs = <<>>
            /\ IsSome(addr) => Unwrap(addr) \in Range(addrs)
            /\ (~e /\ Held4(node) = {} /\ Held6(node) # {}) =>
                   IsNone(addr) /\ addrs = <<>>

\* get_socket_addr asked with IPv6 disabled of a node that has an IPv6
\* address only
C29_Witness ==
    /\ CalledGetSocketAddr
    /\ ~ret.is_ipv6_enabled
    /\ ret.pre = node
    /\ Held4(node) = {} /\ Held6(node) # {}
    /\ IsNone(ret.out)
    /\ DhtNodeGetAllAddrs(node, TRUE) # <<>>

====
